---------------------------- MODULE Spec2Model ----------------------------
(***************************************************************************)
(* A model of src/library/utils/index.ts: the DOM-lifecycle waiter         *)
(* (waitForMoment), the WBI request signer (wbiSign) and the deepest-leaf  *)
(* iterator (deepestIterate).                                              *)
(*                                                                         *)
(* Strings that the code indexes, sorts or encodes are sequences of UTF-16 *)
(* code units (naturals below 65536), as in the JavaScript host.           *)
(***************************************************************************)
EXTENDS Integers, Sequences, FiniteSets

VARIABLES
    head,        \* document.head is non-null
    body,        \* document.body is non-null
    readyState,  \* document.readyState
    dclFired,    \* the DOMContentLoaded event has been dispatched
    loadFired,   \* the load event has been dispatched
    mutations,   \* script-driven child-list mutations of the root so far
    waiters,     \* one record per waitForMoment call, in call order
    params,      \* the caller's params object handed to wbiSign
    imgKey,      \* the caller's img_key
    subKey,      \* the caller's sub_key
    now,         \* the time source read by ts(), in Unix seconds
    call,        \* the last wbiSign call: its arguments and its outcome
    tree,        \* the object handed to deepestIterate: key path |-> kind of value
    calls,       \* the invocations of deepestIterate's callback, in order
    iterated     \* deepestIterate has returned

waitVars == <<head, body, readyState, dclFired, loadFired, mutations, waiters>>
signVars == <<params, imgKey, subKey, now, call>>
iterVars == <<tree, calls, iterated>>
vars == <<waitVars, signVars, iterVars>>

----------------------------------------------------------------------------
(* Bounds of the model. *)

MaxWaiters == 2
MaxMutations == 2
MaxParams == 2      \* entries of params before the call
MaxTicks == 1       \* seconds the clock may advance
ClockStart == 1700000000
MaxProps == 4       \* properties in the whole object tree
MaxDepth == 3       \* nesting of the object tree

----------------------------------------------------------------------------
(* Strings as sequences of UTF-16 code units. *)

Min(a, b) == IF a < b THEN a ELSE b

\* Array.prototype.join(sep) of the strings parts[lo..hi].
RECURSIVE JoinRange(_, _, _, _)
JoinRange(parts, sep, lo, hi) ==
    IF lo > hi THEN <<>>
    ELSE IF lo = hi THEN parts[lo]
    ELSE LET mid == (lo + hi) \div 2
         IN  JoinRange(parts, sep, lo, mid) \o sep \o JoinRange(parts, sep, mid + 1, hi)

Join(parts, sep) == JoinRange(parts, sep, 1, Len(parts))

\* String.prototype.slice(0, n).
SliceTo(s, n) == SubSeq(s, 1, Min(n, Len(s)))

\* a < b for strings, as JavaScript compares them: code unit by code unit.
RECURSIVE UnitsLessFrom(_, _, _)
UnitsLessFrom(a, b, i) ==
    IF i > Len(b) THEN FALSE
    ELSE IF i > Len(a) THEN TRUE
    ELSE IF a[i] # b[i] THEN a[i] < b[i]
    ELSE UnitsLessFrom(a, b, i + 1)

IsHighSurrogate(c) == c \in 55296..56319
IsLowSurrogate(c) == c \in 56320..57343

\* The code points of a string (a lone surrogate stands for itself).
RECURSIVE CodePointsFrom(_, _)
CodePointsFrom(s, i) ==
    IF i > Len(s) THEN <<>>
    ELSE IF IsHighSurrogate(s[i]) /\ i < Len(s) /\ IsLowSurrogate(s[i + 1])
         THEN <<65536 + ((s[i] - 55296) * 1024) + (s[i + 1] - 56320)>>
                  \o CodePointsFrom(s, i + 2)
         ELSE <<s[i]>> \o CodePointsFrom(s, i + 1)

CodePoints(s) == CodePointsFrom(s, 1)

\* Number.prototype.toString() of a non-negative integer: its decimal digits.
RECURSIVE Decimal(_)
Decimal(n) == IF n < 10 THEN <<48 + n>> ELSE Decimal(n \div 10) \o <<48 + (n % 10)>>

\* encodeURIComponent leaves these unescaped: A-Z a-z 0-9 - _ . ! ~ * ' ( )
Unreserved ==
    (65..90) \cup (97..122) \cup (48..57) \cup {45, 95, 46, 33, 126, 42, 39, 40, 41}

UpperHex(n) == IF n < 10 THEN 48 + n ELSE 55 + n

\* One octet as %XX.
PercentOctet(b) == <<37, UpperHex(b \div 16), UpperHex(b % 16)>>

\* The UTF-8 octets of a code point.
Utf8(cp) ==
    IF cp < 128 THEN <<cp>>
    ELSE IF cp < 2048 THEN <<192 + (cp \div 64), 128 + (cp % 64)>>
    ELSE IF cp < 65536
         THEN <<224 + (cp \div 4096), 128 + ((cp \div 64) % 64), 128 + (cp % 64)>>
         ELSE <<240 + (cp \div 262144), 128 + ((cp \div 4096) % 64),
                128 + ((cp \div 64) % 64), 128 + (cp % 64)>>

PercentEncode(cp) ==
    IF cp \in Unreserved THEN <<cp>>
    ELSE LET octets == Utf8(cp)
         IN  Join([k \in 1..Len(octets) |-> PercentOctet(octets[k])], <<>>)

\* encodeURIComponent throws URIError on a string holding a lone surrogate.
URIError(s) ==
    LET cps == CodePoints(s) IN \E i \in 1..Len(cps) : cps[i] \in 55296..57343

\* encodeURIComponent(s), for a string it does not throw on.
encodeURIComponent(s) ==
    LET cps == CodePoints(s) IN Join([i \in 1..Len(cps) |-> PercentEncode(cps[i])], <<>>)

\* Stands for CryptoJS.MD5(s).toString(): 32 lowercase hexadecimal digits that are
\* a function of every code unit of s and of its position.  (The digest itself is
\* the library's; the signer only relies on it being a fixed-length function.)
RECURSIVE Absorb(_, _, _, _)
Absorb(s, mult, lo, hi) ==
    IF lo > hi THEN 0
    ELSE IF lo = hi THEN (s[lo] * ((((lo * lo * mult) + lo) % 251) + 1)) % 65521
    ELSE LET mid == (lo + hi) \div 2
         IN  (Absorb(s, mult, lo, mid) + Absorb(s, mult, mid + 1, hi)) % 65521

LowerHex(n) == IF n < 10 THEN 48 + n ELSE 87 + n

MD5(s) ==
    LET a == Absorb(s, 31, 1, Len(s)) + Len(s)
        b == Absorb(s, 37, 1, Len(s)) + 7
    IN  [k \in 1..32 |-> LowerHex(((a \div k) + (b * k) + k) % 16)]

----------------------------------------------------------------------------
(* wbiSign *)

\* "wts"
WTS == <<119, 116, 115>>

\* "&w_rid="
W_RID == <<38, 119, 95, 114, 105, 100, 61>>

\* "[object Object]"
ObjectObject == <<91, 111, 98, 106, 101, 99, 116, 32, 79, 98, 106, 101, 99, 116, 93>>

\* The values of params: a string, a number or a plain object.
Str(s) == [type |-> "string", str |-> s, num |-> 0]
Num(n) == [type |-> "number", str |-> <<>>, num |-> n]
Obj == [type |-> "object", str |-> <<>>, num |-> 0]

\* value.toString()
toString(v) ==
    CASE v.type = "string" -> v.str
      [] v.type = "number" -> Decimal(v.num)
      [] OTHER             -> ObjectObject

MixinTable ==
    <<46, 47, 18, 2, 53, 8, 23, 32, 15, 50, 10, 31, 58, 3, 45, 35, 27, 43, 5, 49, 33, 9,
      42, 19, 29, 28, 14, 39, 12, 38, 41, 13, 37, 48, 7, 16, 24, 55, 40, 61, 26, 17, 0, 1,
      60, 51, 30, 4, 22, 25, 54, 21, 56, 59, 6, 63, 57, 62, 11, 36, 20, 34, 44, 52>>

\* Mutant: the table's entries taken as 1-based positions.
CharAtOneBased(s, n) == IF n \in DOMAIN s THEN <<s[n]>> ELSE <<>>

\* imgAndSubKey[n] as join('') renders it: undefined joins as the empty string.
CharAt(s, n) == IF n + 1 \in DOMAIN s THEN <<s[n + 1]>> ELSE <<>>

Salt(img, sub) ==
    LET imgAndSubKey == img \o sub
    IN  SliceTo(Join([i \in 1..Len(MixinTable) |-> CharAt(imgAndSubKey, MixinTable[i])],
                     <<>>), 32)

\* params.wts = ts()
WithWts(p, t) ==
    [k \in DOMAIN p \cup {WTS} |-> IF k = WTS THEN Num(t) ELSE p[k]]

\* Object.keys(params), in some enumeration order.
RECURSIVE KeySeq(_)
KeySeq(K) ==
    IF K = {} THEN <<>>
    ELSE LET k == CHOOSE x \in K : TRUE IN <<k>> \o KeySeq(K \ {k})

ObjectKeys(p) == KeySeq(DOMAIN p)

\* Mutant: keys compared by code point instead of by code unit.
SortCompareCodePoints(a, b) == UnitsLessFrom(CodePoints(a), CodePoints(b), 1)

\* The default comparison of Array.prototype.sort(): a sorts before b.
SortCompare(a, b) == UnitsLessFrom(a, b, 1)

RECURSIVE InsertSorted(_, _, _)
InsertSorted(k, s, i) ==
    IF i > Len(s) THEN s \o <<k>>
    ELSE IF SortCompare(k, s[i]) THEN SubSeq(s, 1, i - 1) \o <<k>> \o SubSeq(s, i, Len(s))
    ELSE InsertSorted(k, s, i + 1)

\* Array.prototype.sort() on an array of strings.
RECURSIVE SortFrom(_, _)
SortFrom(s, i) ==
    IF i > Len(s) THEN <<>> ELSE InsertSorted(s[i], SortFrom(s, i + 1), 1)

Sort(s) == SortFrom(s, 1)

\* s with every code unit of the set cs removed.
RECURSIVE RemoveFrom(_, _, _)
RemoveFrom(s, cs, i) ==
    IF i > Len(s) THEN <<>>
    ELSE (IF s[i] \in cs THEN <<>> ELSE <<s[i]>>) \o RemoveFrom(s, cs, i + 1)

\* Mutant: the pattern misses the asterisk.
StripSpecialNoStar(s) == RemoveFrom(s, {33, 39, 40, 41}, 1)

\* replace(/[!'()*]/g, '')
StripSpecial(s) == RemoveFrom(s, {33, 39, 40, 41, 42}, 1)

\* The cleaned value of one key.
CleanValue(p, key) == StripSpecial(toString(p[key]))

\* `${encodeURIComponent(key)}=${encodeURIComponent(value)}`
Pair(p, key) == encodeURIComponent(key) \o <<61>> \o encodeURIComponent(CleanValue(p, key))

\* The map callback throws for this key.
PairThrows(p, key) == URIError(key) \/ URIError(CleanValue(p, key))

Query(p) ==
    LET keys == Sort(ObjectKeys(p))
    IN  Join([i \in 1..Len(keys) |-> Pair(p, keys[i])], <<38>>)

\* The outcome of wbiSign(p, img, sub) called at time t: whether it threw, the
\* string it returned, the salt it computed and params as it leaves it (after),
\* next to the arguments of the call (before, at).
wbiSign(p, img, sub, t) ==
    LET mixed == Salt(img, sub)
        stamped == WithWts(p, t)
        failed == \E key \in DOMAIN stamped : PairThrows(stamped, key)
        query == Query(stamped)
    IN  [done   |-> TRUE,
         threw  |-> failed,
         result |-> IF failed THEN <<>> ELSE query \o W_RID \o MD5(query \o mixed),
         salt   |-> mixed,
         before |-> p,
         at     |-> t,
         after  |-> stamped]

\* The keys and the values callers are drawn from.
KeyPool ==
    { <<98, 97, 114>>,       \* bar
      <<98, 97, 122>>,       \* baz
      WTS,                   \* wts, already present
      <<107, 38, 61>>,       \* k&=
      <<65374>>,             \* U+FF5E
      <<55357, 56832>> }     \* U+1F600, a surrogate pair

ValuePool ==
    { Str(<<40, 120, 32, 33, 39, 43, 42, 41, 32, 121, 42>>),   \* "(x !'+*) y*"
      Num(114),
      Obj,                                                      \* a plain object
      Str(<<55357>>) }                                          \* a lone surrogate

ParamsPool ==
    UNION { [K -> ValuePool] : K \in { K \in SUBSET KeyPool : Cardinality(K) <= MaxParams } }

\* A key of len characters, each position holding a different one.
KeyOf(len, first) == [i \in 1..len |-> first + i - 1]

\* The pairs <<imgKey, subKey>> callers are drawn from: together 64, 67, 32 and 3
\* characters.
KeyPairPool ==
    { <<KeyOf(32, 48), KeyOf(32, 80)>>,
      <<KeyOf(32, 48), KeyOf(35, 80)>>,
      <<KeyOf(32, 48), KeyOf(0, 80)>>,
      <<KeyOf(3, 48), KeyOf(0, 80)>> }

NoCall ==
    [done |-> FALSE, threw |-> FALSE, result |-> <<>>, salt |-> <<>>,
     before |-> <<>>, at |-> 0, after |-> <<>>]

\* No wbiSign caller exists.
SignIdle ==
    /\ params = <<>>
    /\ imgKey = <<>>
    /\ subKey = <<>>
    /\ now = 0
    /\ call = NoCall

SignInit ==
    /\ params \in ParamsPool
    /\ \E pair \in KeyPairPool : imgKey = pair[1] /\ subKey = pair[2]
    /\ now = ClockStart
    /\ call = NoCall

Tick ==
    /\ now < ClockStart + MaxTicks
    /\ now' = now + 1
    /\ UNCHANGED <<params, imgKey, subKey, call, waitVars, iterVars>>

Sign ==
    /\ call' = wbiSign(params, imgKey, subKey, now)
    /\ params' = call'.after
    /\ UNCHANGED <<imgKey, subKey, now, waitVars, iterVars>>

----------------------------------------------------------------------------
(* deepestIterate *)

\* An object tree is kept flat: each path of keys from the root maps to the kind
\* of value found there.  The root, at the empty path, is a plain object; a plain
\* object is empty when no path extends it.
PropertyKeys == {"", "a", "b"}

ValueKinds == {"object", "number", "array"}

EmptyObject == [p \in {<<>>} |-> "object"]

\* The own enumerable keys of the object at path p.
OwnKeys(t, p) == {k \in PropertyKeys : Append(p, k) \in DOMAIN t}

\* _.isPlainObject(value), for the value at path p.
isPlainObject(t, p) == t[p] = "object"

\* _.isEmpty(value), for the plain object at path p.
isEmpty(t, p) == OwnKeys(t, p) = {}

\* The optional path argument.
Undefined == [defined |-> FALSE, str |-> ""]
Given(str) == [defined |-> TRUE, str |-> str]

\* The truthiness of path in `path ? ... : ...`.
Truthy(path) == path.defined /\ path.str # ""

\* deepestIterate(obj, fn, path), obj being the object at path p of t: the
\* invocations of fn it makes, in order.  _.forOwn visits the keys in the
\* object's own enumeration order.
RECURSIVE deepestIterate(_, _, _)
deepestIterate(t, p, path) ==
    LET keys == KeySeq(OwnKeys(t, p))
        Visit(key) ==
            LET newPath == IF Truthy(path) THEN path.str \o "." \o key ELSE key
                at == Append(p, key)
            IN  IF isPlainObject(t, at) /\ ~isEmpty(t, at)
                THEN deepestIterate(t, at, Given(newPath))
                ELSE <<[value |-> t[at], path |-> newPath]>>
    IN  Join([i \in 1..Len(keys) |-> Visit(keys[i])], <<>>)

\* No deepestIterate caller exists.
IterIdle ==
    /\ tree = EmptyObject
    /\ calls = <<>>
    /\ iterated = FALSE

\* The caller builds the object: a property of some kind is set on a plain object
\* of the tree.
SetProperty(p, key, kind) ==
    /\ ~iterated
    /\ p \in DOMAIN tree
    /\ tree[p] = "object"
    /\ Append(p, key) \notin DOMAIN tree
    /\ Len(p) < MaxDepth
    /\ Cardinality(DOMAIN tree) <= MaxProps
    /\ tree' = [q \in DOMAIN tree \cup {Append(p, key)} |->
                  IF q = Append(p, key) THEN kind ELSE tree[q]]
    /\ UNCHANGED <<calls, iterated, waitVars, signVars>>

Iterate ==
    /\ ~iterated
    /\ calls' = deepestIterate(tree, <<>>, Undefined)
    /\ iterated' = TRUE
    /\ UNCHANGED <<tree, waitVars, signVars>>

----------------------------------------------------------------------------
(* waitForMoment *)

Moments ==
    {"document-start", "document-head", "document-body", "document-end", "window-load"}

\* The values a caller can pass at run time: the five moments and others.
MomentInputs == Moments \cup {"nonsense", "document-idle"}

\* A promise together with the subscription its executor made.
\*   promise      pending | resolved | rejected
\*   reason       the rejection value ("" when none)
\*   observing    the MutationObserver is registered on document.documentElement
\*   records      the observer's record queue is non-empty (a notification is due)
\*   listener     the event type of the listener the call added ("none" when none)
\*   observed     observer.observe was called
\*   disconnects  calls of observer.disconnect
\*   resolveCalls calls of resolve
Waiter(m, p, r, o, l) ==
    [moment |-> m, promise |-> p, reason |-> r, observing |-> o, records |-> FALSE,
     listener |-> l, observed |-> o, disconnects |-> 0, resolveCalls |-> 0]

\* resolve(): settles a pending promise, a no-op on a settled one.
Resolve(w) ==
    [w EXCEPT !.promise = IF @ = "pending" THEN "resolved" ELSE @,
              !.resolveCalls = @ + 1]

\* observer.disconnect(): unregisters and empties the record queue.
Disconnect(w) ==
    [w EXCEPT !.observing = FALSE, !.records = FALSE, !.disconnects = @ + 1]

WaitDocumentStart == Resolve(Waiter("document-start", "pending", "", FALSE, "none"))

WaitDocumentHead ==
    IF head
    THEN Resolve(Waiter("document-head", "pending", "", FALSE, "none"))
    ELSE Waiter("document-head", "pending", "", TRUE, "none")

WaitDocumentBody ==
    IF body
    THEN Resolve(Waiter("document-body", "pending", "", FALSE, "none"))
    ELSE Waiter("document-body", "pending", "", TRUE, "none")

\* Mutant: treats only ready-state "complete" as past document-end.
WaitDocumentEndOnlyComplete ==
    IF readyState = "complete"
    THEN Resolve(Waiter("document-end", "pending", "", FALSE, "none"))
    ELSE Waiter("document-end", "pending", "", FALSE, "DOMContentLoaded")

WaitDocumentEnd ==
    IF readyState # "loading"
    THEN Resolve(Waiter("document-end", "pending", "", FALSE, "none"))
    ELSE Waiter("document-end", "pending", "", FALSE, "DOMContentLoaded")

WaitWindowLoad ==
    IF readyState = "complete"
    THEN Resolve(Waiter("window-load", "pending", "", FALSE, "none"))
    ELSE Waiter("window-load", "pending", "", FALSE, "load")

\* Mutant: the default arm falls back to resolving.
WaitDefaultResolves(m) == Resolve(Waiter(m, "pending", "", FALSE, "none"))

WaitDefault(m) == Waiter(m, "rejected", "Illegal moment", FALSE, "none")

waitForMoment(m) ==
    CASE m = "document-start" -> WaitDocumentStart
      [] m = "document-head"  -> WaitDocumentHead
      [] m = "document-body"  -> WaitDocumentBody
      [] m = "document-end"   -> WaitDocumentEnd
      [] m = "window-load"    -> WaitWindowLoad
      [] OTHER                -> WaitDefault(m)

\* Mutant: the callback resolves on any mutation, without looking for the head.
HeadCallbackNoCheck(w) == Resolve(Disconnect(w))

\* The MutationObserver callback of a document-head waiter.
HeadCallback(w) == IF head THEN Resolve(Disconnect(w)) ELSE w

\* Mutant: the callback resolves but leaves its observer connected.
BodyCallbackNoDisconnect(w) == IF body THEN Resolve(w) ELSE w

\* The MutationObserver callback of a document-body waiter.
BodyCallback(w) == IF body THEN Resolve(Disconnect(w)) ELSE w

\* The listener of a document-end waiter: () => resolve().
DOMContentLoadedListener(w) == Resolve(w)

\* The listener of a window-load waiter: () => resolve().
LoadListener(w) == Resolve(w)

----------------------------------------------------------------------------
(* The host: the document, its observers and its events. *)

\* A child-list mutation of the root queues a record for every registered observer.
QueueRecords(ws) ==
    [i \in DOMAIN ws |-> IF ws[i].observing THEN [ws[i] EXCEPT !.records = TRUE] ELSE ws[i]]

\* Dispatching an event runs every listener registered for its type.
Dispatch(ws, type) ==
    [i \in DOMAIN ws |->
        IF ws[i].listener = type
        THEN IF type = "load" THEN LoadListener(ws[i]) ELSE DOMContentLoadedListener(ws[i])
        ELSE ws[i]]

Init ==
    /\ head = FALSE
    /\ body = FALSE
    /\ readyState = "loading"
    /\ dclFired = FALSE
    /\ loadFired = FALSE
    /\ mutations = 0
    /\ waiters = <<>>
    /\ SignIdle
    /\ IterIdle

Call(m) ==
    /\ Len(waiters) < MaxWaiters
    /\ waiters' = Append(waiters, waitForMoment(m))
    /\ UNCHANGED <<head, body, readyState, dclFired, loadFired, mutations, signVars, iterVars>>

AddHead ==
    /\ ~head
    /\ head' = TRUE
    /\ waiters' = QueueRecords(waiters)
    /\ UNCHANGED <<body, readyState, dclFired, loadFired, mutations, signVars, iterVars>>

AddBody ==
    /\ ~body
    /\ body' = TRUE
    /\ waiters' = QueueRecords(waiters)
    /\ UNCHANGED <<head, readyState, dclFired, loadFired, mutations, signVars, iterVars>>

RemoveHead ==
    /\ head
    /\ mutations < MaxMutations
    /\ head' = FALSE
    /\ mutations' = mutations + 1
    /\ waiters' = QueueRecords(waiters)
    /\ UNCHANGED <<body, readyState, dclFired, loadFired, signVars, iterVars>>

RemoveBody ==
    /\ body
    /\ mutations < MaxMutations
    /\ body' = FALSE
    /\ mutations' = mutations + 1
    /\ waiters' = QueueRecords(waiters)
    /\ UNCHANGED <<head, readyState, dclFired, loadFired, signVars, iterVars>>

\* Any other child of the root (a comment, a stray node) is added or removed.
OtherMutation ==
    /\ mutations < MaxMutations
    /\ mutations' = mutations + 1
    /\ waiters' = QueueRecords(waiters)
    /\ UNCHANGED <<head, body, readyState, dclFired, loadFired, signVars, iterVars>>

\* Mutant: one observer shared by all calls, so that a disconnect made by one
\* waiter's callback unsubscribes the others.
NotifyShared(i) ==
    /\ i \in DOMAIN waiters
    /\ waiters[i].records
    /\ LET w == [waiters[i] EXCEPT !.records = FALSE]
           after == IF w.moment = "document-head" THEN HeadCallback(w) ELSE BodyCallback(w)
       IN  waiters' = [j \in DOMAIN waiters |->
                IF j = i THEN after
                ELSE IF after.disconnects > w.disconnects
                     THEN [waiters[j] EXCEPT !.observing = FALSE, !.records = FALSE]
                     ELSE waiters[j]]
    /\ UNCHANGED <<head, body, readyState, dclFired, loadFired, mutations, signVars, iterVars>>

\* The host delivers the queued records of observer i: its callback runs.
Notify(i) ==
    /\ i \in DOMAIN waiters
    /\ waiters[i].records
    /\ waiters' = [waiters EXCEPT ![i] =
          IF waiters[i].moment = "document-head"
          THEN HeadCallback([waiters[i] EXCEPT !.records = FALSE])
          ELSE BodyCallback([waiters[i] EXCEPT !.records = FALSE])]
    /\ UNCHANGED <<head, body, readyState, dclFired, loadFired, mutations, signVars, iterVars>>

BecomeInteractive ==
    /\ readyState = "loading"
    /\ readyState' = "interactive"
    /\ UNCHANGED <<head, body, dclFired, loadFired, mutations, waiters, signVars, iterVars>>

FireDOMContentLoaded ==
    /\ readyState = "interactive"
    /\ ~dclFired
    /\ dclFired' = TRUE
    /\ waiters' = Dispatch(waiters, "DOMContentLoaded")
    /\ UNCHANGED <<head, body, readyState, loadFired, mutations, signVars, iterVars>>

BecomeComplete ==
    /\ readyState = "interactive"
    /\ dclFired
    /\ readyState' = "complete"
    /\ UNCHANGED <<head, body, dclFired, loadFired, mutations, waiters, signVars, iterVars>>

FireLoad ==
    /\ readyState = "complete"
    /\ ~loadFired
    /\ loadFired' = TRUE
    /\ waiters' = Dispatch(waiters, "load")
    /\ UNCHANGED <<head, body, readyState, dclFired, mutations, signVars, iterVars>>

Next ==
    \/ \E m \in MomentInputs : Call(m)
    \/ AddHead
    \/ AddBody
    \/ RemoveHead
    \/ RemoveBody
    \/ OtherMutation
    \/ \E i \in 1..MaxWaiters : Notify(i)
    \/ BecomeInteractive
    \/ FireDOMContentLoaded
    \/ BecomeComplete
    \/ FireLoad

Spec == Init /\ [][Next]_vars

\* The document progresses through its lifecycle, its parser (or a script)
\* supplies a missing head and body, and queued notifications are delivered.
Fairness ==
    /\ WF_vars(AddHead)
    /\ WF_vars(AddBody)
    /\ \A i \in 1..MaxWaiters : WF_vars(Notify(i))
    /\ WF_vars(BecomeInteractive)
    /\ WF_vars(FireDOMContentLoaded)
    /\ WF_vars(BecomeComplete)
    /\ WF_vars(FireLoad)

FairSpec == Spec /\ Fairness

\* The signer alone: a caller with some params and keys, and a clock.
WaitIdle ==
    /\ head = FALSE
    /\ body = FALSE
    /\ readyState = "loading"
    /\ dclFired = FALSE
    /\ loadFired = FALSE
    /\ mutations = 0
    /\ waiters = <<>>

SignNext == Tick \/ Sign

SignStart == WaitIdle /\ SignInit /\ IterIdle

SignSpec == SignStart /\ [][SignNext]_vars

\* The iterator alone: a caller that builds an object tree and walks it.
IterStart == WaitIdle /\ SignIdle /\ IterIdle

IterNext ==
    \/ \E p \in DOMAIN tree, key \in PropertyKeys, kind \in ValueKinds :
          SetProperty(p, key, kind)
    \/ Iterate

IterSpec == IterStart /\ [][IterNext]_vars

----------------------------------------------------------------------------
(* Properties of waitForMoment. *)

\* The lifecycle point of moment m is reached in the current state.
Reached(m) ==
    CASE m = "document-start" -> TRUE
      [] m = "document-head"  -> head
      [] m = "document-body"  -> body
      [] m = "document-end"   -> readyState \in {"interactive", "complete"}
      [] m = "window-load"    -> readyState = "complete"
      [] OTHER                -> FALSE

\* The element a mutation-observing waiter awaits is present.
Present(m) == IF m = "document-head" THEN head ELSE body

\* This step is a waitForMoment call (it appends the waiter it returns).
IsCall == Len(waiters') = Len(waiters) + 1

\* This step delivers the queued notification of waiter i to its callback.
Delivered(i) == waiters[i].records /\ ~waiters'[i].records

\* This step dispatches the event of the given type.
Fired(type) ==
    IF type = "load" THEN loadFired' /\ ~loadFired ELSE dclFired' /\ ~dclFired

Pending(i) == i \in DOMAIN waiters /\ waiters[i].promise = "pending"

Resolved(i) == i \in DOMAIN waiters /\ waiters[i].promise = "resolved"

\* What a pending waiter of each moment is waiting for, as a step.
OwnTrigger(i) ==
    CASE waiters[i].moment = "document-head" -> Delivered(i) /\ head
      [] waiters[i].moment = "document-body" -> Delivered(i) /\ body
      [] waiters[i].moment = "document-end"  -> Fired("DOMContentLoaded")
      [] waiters[i].moment = "window-load"   -> Fired("load")
      [] OTHER                               -> FALSE

C1Step ==
    /\ IsCall /\ waiters'[Len(waiters')].moment \in Moments
              /\ ~Reached(waiters'[Len(waiters')].moment)
         => waiters'[Len(waiters')].promise = "pending"
    /\ \A i \in DOMAIN waiters :
         waiters[i].promise = "pending"
           => /\ waiters'[i].promise \in {"pending", "resolved"}
              /\ waiters'[i].promise = "resolved" <=> OwnTrigger(i)

\* C1: a waiter whose lifecycle point is not reached at call time is pending; a
\* document-head (document-body) waiter stays pending through every notification
\* delivered while the head (body) is absent and resolves at the first one
\* delivered while it is present; a document-end (window-load) waiter resolves
\* exactly when DOMContentLoaded (load) is dispatched; and under a document that
\* progresses and delivers its notifications every pending waiter eventually
\* resolves.
C1_PendingUntilReachedThenResolves ==
    /\ [][C1Step]_vars
    /\ \A i \in 1..MaxWaiters : Pending(i) ~> Resolved(i)

\* A document-head waiter and a document-end waiter that both had to wait (one
\* through an observer, one through a listener) have resolved.
C1_Witness ==
    \E i, j \in DOMAIN waiters :
        /\ waiters[i].moment = "document-head" /\ waiters[i].observed
        /\ waiters[i].promise = "resolved"
        /\ waiters[j].moment = "document-end" /\ waiters[j].listener = "DOMContentLoaded"
        /\ waiters[j].promise = "resolved"

\* C2: a call made when the requested point is already reached returns a resolved
\* promise and registers neither a mutation observer nor an event listener.
C2_ImmediateWhenReached ==
    [][IsCall /\ Reached(waiters'[Len(waiters')].moment)
         => /\ waiters'[Len(waiters')].promise = "resolved"
            /\ ~waiters'[Len(waiters')].observed
            /\ ~waiters'[Len(waiters')].observing
            /\ waiters'[Len(waiters')].listener = "none"]_vars

\* A document-end call made at ready-state "complete" and a document-head call
\* made with the head present both resolved without any subscription.
C2_Witness ==
    /\ readyState = "complete"
    /\ head
    /\ Len(waiters) = 2
    /\ waiters[1].moment = "document-head" /\ waiters[1].promise = "resolved"
    /\ ~waiters[1].observed
    /\ waiters[2].moment = "document-end" /\ waiters[2].promise = "resolved"
    /\ waiters[2].listener = "none"
    /\ mutations = 0

C3Inv(w) ==
    w.observed =>
        /\ w.moment \in {"document-head", "document-body"}
        /\ w.disconnects <= 1
        /\ w.observing <=> w.disconnects = 0
        /\ w.promise = "resolved" <=> w.disconnects = 1
        /\ w.records => w.observing

C3Step(i) ==
    /\ waiters'[i].disconnects # waiters[i].disconnects
         <=> waiters[i].observed /\ Delivered(i) /\ Present(waiters[i].moment)
    /\ waiters[i].disconnects >= 1 => ~Delivered(i) /\ ~waiters'[i].records

\* C3: the observer of a document-head or document-body waiter is disconnected
\* exactly once, at the notification at which the awaited element is first seen
\* present: not while it is absent, never left connected once the waiter has
\* resolved, and no notification is queued for it or delivered to it afterwards.
C3_ObserverDisconnectedExactlyOnce ==
    /\ [](\A i \in DOMAIN waiters : C3Inv(waiters[i]))
    /\ [][\A i \in DOMAIN waiters : C3Step(i)]_vars

\* An observer was disconnected and the page mutated to its bound, the head being
\* removed again.
C3_Witness ==
    \E i \in DOMAIN waiters :
        /\ waiters[i].moment = "document-head"
        /\ waiters[i].observed
        /\ waiters[i].disconnects = 1
        /\ ~head
        /\ mutations = MaxMutations

\* C4: once the DOMContentLoaded (load) event has fired and a document-end
\* (window-load) waiter has resolved, the listener it registered is detached.
C4_ListenerDetachedAfterResolve ==
    \A i \in DOMAIN waiters :
        waiters[i].promise = "resolved" => waiters[i].listener = "none"

\* C5: a call with a value that is none of the five moments returns a promise
\* rejected with "Illegal moment" and registers no observer and no listener; a
\* call with one of the five moments never rejects.
C5_IllegalMomentRejects ==
    \A i \in DOMAIN waiters :
        IF waiters[i].moment \in Moments
        THEN waiters[i].promise # "rejected" /\ waiters[i].reason = ""
        ELSE /\ waiters[i].promise = "rejected"
             /\ waiters[i].reason = "Illegal moment"
             /\ ~waiters[i].observed
             /\ ~waiters[i].observing
             /\ waiters[i].listener = "none"
             /\ waiters[i].resolveCalls = 0

\* An unknown moment was rejected after the whole page had loaded, next to a
\* legal call.
C5_Witness ==
    /\ loadFired
    /\ Len(waiters) = 2
    /\ waiters[1].moment = "window-load" /\ waiters[1].promise = "resolved"
    /\ waiters[2].moment = "nonsense" /\ waiters[2].promise = "rejected"

\* Waiter j changes in this step only as its own subscription dictates.
C6Step(j) ==
    /\ waiters'[j].promise # waiters[j].promise
         => waiters[j].promise = "pending" /\ waiters'[j].promise = "resolved"
            /\ OwnTrigger(j)
    /\ waiters'[j].observing # waiters[j].observing
         => waiters[j].observing /\ Delivered(j) /\ Present(waiters[j].moment)
    /\ waiters'[j].listener = waiters[j].listener
    /\ \A i \in DOMAIN waiters \ {j} : Delivered(i) => waiters'[j] = waiters[j]
    /\ IsCall => waiters'[j] = waiters[j]
    /\ waiters'[j].resolveCalls <= 1

\* C6: concurrent waiters are independent: a waiter settles or loses its
\* subscription only through its own notification or event, the delivery of one
\* waiter's notification and a new call leave every other waiter untouched, and
\* resolve is called at most once per waiter.
C6_WaitersIndependent ==
    [][\A j \in DOMAIN waiters : C6Step(j)]_vars

\* Two waiters on the same moment, each with its own observer: one has resolved
\* and disconnected while the other is still pending and connected.
C6_Witness ==
    \E i, j \in DOMAIN waiters :
        /\ waiters[i].moment = "document-body" /\ waiters[j].moment = "document-body"
        /\ waiters[i].observed /\ waiters[j].observed
        /\ waiters[i].promise = "resolved" /\ waiters[i].disconnects = 1
        /\ waiters[j].promise = "pending" /\ waiters[j].observing

----------------------------------------------------------------------------
(* Properties of wbiSign. *)

\* a comes strictly before b in the lexicographic order of their elements.
SeqBefore(a, b) ==
    \E i \in 1..Len(b) :
        /\ i <= Len(a) + 1
        /\ \A j \in 1..(i - 1) : a[j] = b[j]
        /\ (i = Len(a) + 1 \/ a[i] < b[i])

CodeUnitBefore(a, b) == SeqBefore(a, b)

CodePointBefore(a, b) == SeqBefore(CodePoints(a), CodePoints(b))

\* The positions of code unit c in s, ascending.
Positions(s, c) ==
    LET at == {i \in 1..Len(s) : s[i] = c}
    IN  [n \in 1..Cardinality(at) |->
            CHOOSE i \in at : Cardinality({j \in at : j <= i}) = n]

\* s split at every code unit c: String.prototype.split.
Split(s, c) ==
    LET cut == <<0>> \o Positions(s, c) \o <<Len(s) + 1>>
    IN  [n \in 1..(Len(cut) - 1) |-> SubSeq(s, cut[n] + 1, cut[n + 1] - 1)]

\* The part of a key=value pair before, and after, its first "=".
KeyPart(pair) == SubSeq(pair, 1, Positions(pair, 61)[1] - 1)
ValuePart(pair) == SubSeq(pair, Positions(pair, 61)[1] + 1, Len(pair))

\* The number of code units of s that are c.
Count(s, c) == Cardinality({i \in 1..Len(s) : s[i] = c})

\* The number of places where "%20" stands in s.
CountPercent20(s) ==
    Cardinality({i \in 1..(Len(s) - 2) : SubSeq(s, i, i + 2) = <<37, 50, 48>>})

\* What the last call returned and did, the keys being ordered by code point or
\* by code unit.
SignedAsStated(byCodePoint) ==
    LET Before(a, b) == IF byCodePoint THEN CodePointBefore(a, b) ELSE CodeUnitBefore(a, b)
        keys == DOMAIN call.before \cup {WTS}
        r == call.result
        query == SubSeq(r, 1, Len(r) - Len(W_RID) - 32)
        pairs == Split(query, 38)
    IN  /\ call.after = [k \in keys |-> IF k = WTS THEN Num(call.at) ELSE call.before[k]]
        /\ params = call.after
        /\ r = query \o W_RID \o MD5(query \o call.salt)
        /\ Len(pairs) = Cardinality(keys)
        /\ \A i \in 1..Len(pairs) :
             \E k \in keys :
                /\ Cardinality({j \in keys : Before(j, k)}) = i - 1
                /\ pairs[i] = encodeURIComponent(k) \o <<61>>
                                \o encodeURIComponent(StripSpecial(toString(call.after[k])))

C8_ValuesStrippedAndSpaceEncoded ==
    call.done /\ ~call.threw =>
        LET r == call.result
            pairs == Split(SubSeq(r, 1, Len(r) - Len(W_RID) - 32), 38)
        IN  \A i \in 1..Len(pairs) :
                /\ \A c \in {33, 39, 40, 41, 42, 43, 32} : Count(ValuePart(pairs[i]), c) = 0
                /\ \E k \in DOMAIN call.after :
                      /\ encodeURIComponent(k) = KeyPart(pairs[i])
                      /\ CountPercent20(ValuePart(pairs[i]))
                           = Count(toString(call.after[k]), 32)

\* A value holding all of ! ' ( ) *, a "+" and two spaces was signed.
C8_Witness ==
    /\ call.done
    /\ ~call.threw
    /\ \E k \in DOMAIN call.before :
          /\ call.before[k].type = "string"
          /\ \A c \in {33, 39, 40, 41, 42, 43} : Count(call.before[k].str, c) >= 1
          /\ Count(call.before[k].str, 32) = 2

\* The entries of the table that are positions of a string of length n, in table
\* order.
InRange(n) ==
    LET at == {j \in 1..Len(MixinTable) : MixinTable[j] < n}
    IN  [i \in 1..Cardinality(at) |->
            MixinTable[CHOOSE j \in at : Cardinality({h \in at : h <= j}) = i]]

\* C9: the table is a permutation of 0..63; for S = imgKey + subKey of at least 64
\* characters the salt is the 32 characters of S at the first 32 table entries;
\* for a shorter S the call still completes and the salt is made of the
\* characters at the table entries that are positions of S, the others
\* contributing nothing, cut to 32.
C9_SaltFromTable ==
    /\ Len(MixinTable) = 64
    /\ {MixinTable[i] : i \in 1..64} = 0..63
    /\ call.done =>
         LET S == imgKey \o subKey
             picks == InRange(Len(S))
         IN  /\ Len(S) >= 64 =>
                  /\ Len(call.salt) = 32
                  /\ \A i \in 1..32 : call.salt[i] = S[MixinTable[i] + 1]
             /\ Len(call.salt) = Min(32, Len(S))
             /\ \A i \in 1..Len(call.salt) : call.salt[i] = S[picks[i] + 1]

\* Keys of 32 and 35 characters were used: S has 67 characters.
C9_Witness ==
    /\ call.done
    /\ Len(imgKey) = 32
    /\ Len(subKey) = 35

----------------------------------------------------------------------------
(* Properties of deepestIterate. *)

\* The leaves of the tree: every value that is not a non-empty plain object.
Leaves == {p \in DOMAIN tree \ {<<>>} : ~(tree[p] = "object" /\ OwnKeys(tree, p) # {})}

\* The keys of a path joined by ".".
RECURSIVE DotJoin(_)
DotJoin(p) ==
    IF Len(p) = 1 THEN p[1]
    ELSE DotJoin(SubSeq(p, 1, Len(p) - 1)) \o "." \o p[Len(p)]

\* C10: deepestIterate invokes the callback exactly once for every leaf and for
\* nothing else, with the leaf's value and the "."-join of all the keys on the
\* way from the root to the leaf.
C10_OncePerLeafWithDottedPath ==
    iterated =>
        /\ Len(calls) = Cardinality(Leaves)
        /\ \A p \in Leaves :
             Cardinality({i \in 1..Len(calls) :
                             calls[i] = [value |-> tree[p], path |-> DotJoin(p)]}) = 1

============================================================================
